---- MODULE Spec2Model ----
(***************************************************************************)
(* A model of the PS Foodbook front-end: cookie/JWT session verification   *)
(* (src/lib/auth/session.ts), locale-aware routing (src/i18n/routing.ts    *)
(* with the edge middleware and the request configuration) and the remote  *)
(* data wrappers (src/lib/api/wordpress.ts) with the footer that uses them.*)
(***************************************************************************)
EXTENDS Integers, Sequences, FiniteSets, TLC

VARIABLES
    cookie,     \* the request's "session" cookie, as cookies() presents it
    now,        \* the wall clock, in milliseconds (Date.now())
    log,        \* the lines written with console.error
    call,       \* the last session operation: its inputs, clock reads and result
    request,    \* the HTTP request the edge middleware is given
    response,   \* the middleware's response to it ([kind |-> "none"] before it ran)
    config,     \* the request configuration next-intl resolved for the request
    env,        \* process.env: the upstream base-URL variables
    wordpress,  \* the module src/lib/api/wordpress.ts: not loaded, loaded, failed
    outbound,   \* the outbound requests issued with fetch, in order
    tasks,      \* the footer's menu fetches: one per menu group
    footer,     \* the rendered footer ([kind |-> "none"] before it rendered)
    keys,       \* the last two invocations of the query-key factories
    clients,    \* getQueryClient's module: isServer, browserQueryClient, the
                \* instances created and the instances returned, in order
    query       \* the query or mutation being run by the query client

vars == <<cookie, now, log, call, request, response, config, env, wordpress,
          outbound, tasks, footer, keys, clients, query>>
sessionVars == <<cookie, now, log, call>>
routingVars == <<request, response, config>>
remoteVars == <<env, wordpress, outbound, tasks, footer>>
queryVars == <<keys, clients, query>>

----------------------------------------------------------------------------
(* Bounds of the model.                                                    *)

\* The clock runs over the seconds 0..MaxSec.
MaxSec == 2
\* The exp claim of a token is one of 0..MaxExp (seconds since the epoch).
MaxExp == 2
\* The session operations stop once the log holds MaxLog lines.
MaxLog == 2
\* A request path is an optional first segment and at most MaxTail more segments.
MaxTail == 2
\* getQueryClient() is called at most MaxCalls times.
MaxCalls == 3
\* The query function of one query is run at most MaxAttempts times.
MaxAttempts == 4
\* retryDelay is looked at for the attempt indexes 0..MaxAttemptIndex.
MaxAttemptIndex == 6

----------------------------------------------------------------------------
(* Session verification: src/lib/auth/session.ts                           *)

\* payload.exp * 1000: seconds to milliseconds.
MsPerSec == 1000

\* The instants the clock is read at: each second's first and last millisecond.
Instants == {s * MsPerSec + o : s \in 0..MaxSec, o \in {0, MsPerSec - 1}}

JWT_SECRET == "your-secret-key"

getSecretKey == JWT_SECRET

\* jwtVerify's option { algorithms: ['HS256'] }.
Algorithms == {"HS256"}

Null == [kind |-> "null"]

\* The claims of a SessionPayload: userId and email always, the others optional.
OptionalClaims == {"name", "role", "permissions", "exp"}

Roles == {"admin", "user"}

Permissions == {"users:manage", "orders:read"}

PermissionLists == {<<>>, <<"users:manage">>}

Payloads ==
    {[k \in {"userId", "email"} \cup D |->
        CASE k = "userId" -> 7
          [] k = "email" -> "ann@example.com"
          [] k = "name" -> "Ann"
          [] k = "role" -> r
          [] k = "permissions" -> ps
          [] k = "exp" -> e] :
        D \in SUBSET OptionalClaims, r \in Roles, ps \in PermissionLists,
        e \in 0..MaxExp}

\* A token: a compact JWS signed with `key` under `alg`, or a string that is none.
SignedTokens ==
    {[form |-> "jws", alg |-> "HS256", key |-> JWT_SECRET, payload |-> p] :
        p \in Payloads}

ForgedTokens ==
    {[form |-> "jws", alg |-> a, key |-> k, payload |-> p] :
        a \in {"HS256", "HS512"}, k \in {JWT_SECRET, "attacker-key"},
        p \in {q \in Payloads : DOMAIN q \subseteq {"userId", "email", "role", "exp"}}}
    \ SignedTokens

MalformedTokens ==
    {[form |-> "malformed", alg |-> "HS256", key |-> JWT_SECRET, payload |-> p] :
        p \in {q \in Payloads : DOMAIN q = {"userId", "email"}}}

NoCookie == [form |-> "absent"]

EmptyCookie == [form |-> "empty"]

Cookies ==
    {NoCookie, EmptyCookie} \cup SignedTokens \cup ForgedTokens \cup MalformedTokens

\* !token: the cookie is missing (undefined) or the empty string.
Falsy(token) == token.form \in {"absent", "empty"}

Throw(e) == [ok |-> FALSE, error |-> e]

\* jose's jwtVerify(token, key, { algorithms }): the compact form, the algorithm,
\* the signature, then the exp claim against the clock in whole seconds.
jwtVerify(token, key, t) ==
    IF token.form # "jws" THEN Throw("JWSInvalid")
    ELSE IF token.alg \notin Algorithms THEN Throw("JOSEAlgNotAllowed")
    ELSE IF token.key # key THEN Throw("JWSSignatureVerificationFailed")
    ELSE IF "exp" \in DOMAIN token.payload /\ token.payload.exp <= t \div MsPerSec
        THEN Throw("JWTExpired")
    ELSE [ok |-> TRUE, payload |-> token.payload]

ErrorLine(e) == <<"JWT verification failed:", e>>

\* A verifyToken whose catch block is missing: the rejection reaches the caller.
verifyToken_NoCatch(token, t) ==
    LET r == jwtVerify(token, getSecretKey, t)
    IN  IF r.ok
        THEN [threw |-> FALSE, ok |-> TRUE, payload |-> r.payload, lines |-> <<>>]
        ELSE [threw |-> TRUE, ok |-> FALSE, lines |-> <<>>]

verifyToken(token, t) ==
    LET r == jwtVerify(token, getSecretKey, t)
    IN  IF r.ok
        THEN [threw |-> FALSE, ok |-> TRUE, payload |-> r.payload, lines |-> <<>>]
        ELSE [threw |-> FALSE, ok |-> FALSE, lines |-> <<ErrorLine(r.error)>>]

\* payload.exp as a condition: the claim is there and is not 0.
ExpTruthy(payload) == "exp" \in DOMAIN payload /\ payload.exp # 0

\* A session user that drops the name claim.
sessionUser_NoName(payload) ==
    [k \in {"id", "email"} \cup ({"role", "permissions"} \cap DOMAIN payload) |->
        CASE k = "id" -> payload.userId
          [] k = "email" -> payload.email
          [] OTHER -> payload[k]]

\* The user object of lines 105-113: id and email, and each optional claim
\* spread in only when it is not undefined.
sessionUser(payload) ==
    [k \in {"id", "email"} \cup ({"name", "role", "permissions"} \cap DOMAIN payload) |->
        CASE k = "id" -> payload.userId
          [] k = "email" -> payload.email
          [] OTHER -> payload[k]]

Returned(v, lines) == [threw |-> FALSE, ret |-> v, lines |-> lines]

Thrown(lines) == [threw |-> TRUE, ret |-> Null, lines |-> lines]

\* getSession(): tVerify is the clock jwtVerify reads, tNow the Date.now() of
\* line 100 (exp truthy) or of line 114 (exp falsy), read after the await.
getSession(token, tVerify, tNow) ==
    IF Falsy(token) THEN Returned(Null, <<>>)
    ELSE LET v == verifyToken(token, tVerify)
         IN  IF v.threw THEN Thrown(v.lines)
             ELSE IF ~v.ok THEN Returned(Null, v.lines)
             ELSE IF ExpTruthy(v.payload) /\ v.payload.exp * MsPerSec < tNow
                 THEN Returned(Null, v.lines)
             ELSE Returned(
                    [kind |-> "session",
                     user |-> sessionUser(v.payload),
                     expiresAt |-> IF ExpTruthy(v.payload)
                                   THEN v.payload.exp * MsPerSec
                                   ELSE tNow],
                    v.lines)

\* An isAuthenticated that looks at the cookie only and verifies nothing.
isAuthenticated_CookieOnly(token, tVerify, tNow) == Returned(~Falsy(token), <<>>)

isAuthenticated(token, tVerify, tNow) ==
    LET s == getSession(token, tVerify, tNow)
    IN  IF s.threw THEN s ELSE Returned(s.ret.kind # "null", s.lines)

Includes(list, x) == \E i \in 1..Len(list) : list[i] = x

hasPermission(token, permission, tVerify, tNow) ==
    LET s == getSession(token, tVerify, tNow)
    IN  IF s.threw THEN s
        ELSE IF s.ret.kind = "null" THEN Returned(FALSE, s.lines)
        ELSE Returned(
               IF "permissions" \in DOMAIN s.ret.user
               THEN Includes(s.ret.user.permissions, permission)
               ELSE FALSE,
               s.lines)

\* A hasRole that lets a session without a role pass: !role || role === r.
hasRole_MissingRolePasses(token, role, tVerify, tNow) ==
    LET s == getSession(token, tVerify, tNow)
    IN  IF s.threw THEN s
        ELSE IF s.ret.kind = "null" THEN Returned(FALSE, s.lines)
        ELSE Returned("role" \notin DOMAIN s.ret.user \/ s.ret.user.role = role, s.lines)

hasRole(token, role, tVerify, tNow) ==
    LET s == getSession(token, tVerify, tNow)
    IN  IF s.threw THEN s
        ELSE IF s.ret.kind = "null" THEN Returned(FALSE, s.lines)
        ELSE Returned("role" \in DOMAIN s.ret.user /\ s.ret.user.role = role, s.lines)

\* As getSessionToken, but a falsy value (the empty string too) becomes null.
getSessionToken_FalsyNull(token) ==
    IF Falsy(token) THEN Returned(Null, <<>>) ELSE Returned(token, <<>>)

\* getSessionToken(): cookieStore.get(SESSION_COOKIE_NAME)?.value ?? null
getSessionToken(token) ==
    IF token.form = "absent" THEN Returned(Null, <<>>) ELSE Returned(token, <<>>)

NoCall == [op |-> "none"]

NoRequest == [kind |-> "none"]

NoResponse == [kind |-> "none"]

NoConfig == [kind |-> "none"]

NoFooter == [kind |-> "none"]

Undefined == [kind |-> "undefined"]

Str(s) == [kind |-> "string", value |-> s]

\* The upstream base-URL variables of process.env.
EnvVars == {"NEXT_PUBLIC_WP_API_URL", "NEXT_PUBLIC_FOODBOOK_API_URL"}

\* The value a deployment gives the variable.
BaseUrl(v) ==
    IF v = "NEXT_PUBLIC_WP_API_URL" THEN "https://psinfoodservice.online/wp-json"
    ELSE "https://api.foodbook.psinfoodservice.com"

NoKey == [kind |-> "none"]

NoQuery == [kind |-> "none"]

\* The client-cache part at rest: no key made, no client made, nothing run.
QueryIdle ==
    /\ keys = [prev |-> NoKey, last |-> NoKey]
    /\ clients = [isServer |-> FALSE, browserQueryClient |-> Undefined,
                  created |-> 0, returned |-> <<>>]
    /\ query = NoQuery

\* The remote-data part at rest: every variable set, nothing loaded or fetched.
RemoteIdle ==
    /\ env = [v \in EnvVars |-> Str(BaseUrl(v))]
    /\ wordpress = "unloaded"
    /\ outbound = <<>>
    /\ tasks = <<>>
    /\ footer = NoFooter

\* One request's cookie store and the clock when it arrives; nothing called yet.
InitSession ==
    /\ cookie \in Cookies
    /\ now \in Instants
    /\ log = <<>>
    /\ call = NoCall
    /\ request = NoRequest
    /\ response = NoResponse
    /\ config = NoConfig
    /\ RemoteIdle
    /\ QueryIdle

\* A session operation runs: the clock is read at tVerify and again at tNow.
Run(op, arg, tVerify, tNow, r) ==
    /\ Len(log) < MaxLog
    /\ now <= tVerify
    /\ tVerify <= tNow
    /\ call' = [op |-> op, arg |-> arg, token |-> cookie, tVerify |-> tVerify,
                tNow |-> tNow, threw |-> r.threw, ret |-> r.ret, lines |-> r.lines]
    /\ log' = log \o r.lines
    /\ now' = tNow
    /\ UNCHANGED <<cookie, routingVars, remoteVars, queryVars>>

GetSession ==
    \E tVerify \in Instants, tNow \in Instants :
        Run("getSession", "", tVerify, tNow, getSession(cookie, tVerify, tNow))

IsAuthenticated ==
    \E tVerify \in Instants, tNow \in Instants :
        Run("isAuthenticated", "", tVerify, tNow, isAuthenticated(cookie, tVerify, tNow))

HasPermission ==
    \E p \in Permissions, tVerify \in Instants, tNow \in Instants :
        Run("hasPermission", p, tVerify, tNow, hasPermission(cookie, p, tVerify, tNow))

HasRole ==
    \E r \in Roles, tVerify \in Instants, tNow \in Instants :
        Run("hasRole", r, tVerify, tNow, hasRole(cookie, r, tVerify, tNow))

\* getSessionToken() reads the cookie store and nothing else.
GetSessionToken ==
    Run("getSessionToken", "", now, now, getSessionToken(cookie))

NextSession ==
    GetSession \/ IsAuthenticated \/ HasPermission \/ HasRole \/ GetSessionToken

SpecSession == InitSession /\ [][NextSession]_vars

----------------------------------------------------------------------------
(* Claims about session verification, checked under SpecSession.           *)

ValidlySigned(token) ==
    token.form = "jws" /\ token.alg \in Algorithms /\ token.key = JWT_SECRET

HasClaim(token, k) == k \in DOMAIN token.payload

\* The session getSession computes for the inputs of the last call.
SessionOfCall == getSession(call.token, call.tVerify, call.tNow).ret

\* C1: getSession() returns null and does not throw when the cookie is missing,
\* when the token is syntactically invalid, when it is validly signed but expired
\* (at the clock jwtVerify reads, or past its expiry at the later Date.now()), and
\* when it is signed with a different secret.
C1_NullOnBadToken ==
    (/\ call.op = "getSession"
     /\ \/ Falsy(call.token)
        \/ call.token.form = "malformed"
        \/ /\ ValidlySigned(call.token)
           /\ HasClaim(call.token, "exp")
           /\ \/ call.token.payload.exp * MsPerSec <= call.tVerify
              \/ call.token.payload.exp * MsPerSec < call.tNow
        \/ call.token.form = "jws" /\ call.token.key # JWT_SECRET)
    => (~call.threw /\ call.ret = Null)

C1_Witness ==
    /\ call.op = "getSession"
    /\ ValidlySigned(call.token)
    /\ HasClaim(call.token, "exp")
    /\ call.token.payload.exp * MsPerSec <= call.tVerify
    /\ ~call.threw
    /\ call.ret = Null

\* C2 (as claimed): a non-null session comes from a validly signed token that is
\* not expired at the call, and its user.id, user.email and expiresAt are all
\* set from the token's claims (expiresAt from exp).
C2_Original ==
    (call.op = "getSession" /\ ~call.threw /\ call.ret.kind = "session")
    => /\ ValidlySigned(call.token)
       /\ HasClaim(call.token, "exp") =>
            /\ call.token.payload.exp > call.tVerify \div MsPerSec
            /\ call.token.payload.exp * MsPerSec >= call.tNow
       /\ call.ret.user.id = call.token.payload.userId
       /\ call.ret.user.email = call.token.payload.email
       /\ HasClaim(call.token, "exp")
       /\ call.ret.expiresAt = call.token.payload.exp * MsPerSec

\* C3: for a validly signed token that is not expired (no exp claim, or the
\* clock still before exp when the call ends) getSession() returns a session
\* whose user.id and user.email are the token's userId and email, and name, role
\* and permissions are in the session exactly when the token has the claim, with
\* the claim's value.
C3_PopulatedSession ==
    (/\ call.op = "getSession"
     /\ ValidlySigned(call.token)
     /\ HasClaim(call.token, "exp") => call.tNow < call.token.payload.exp * MsPerSec)
    => /\ ~call.threw
       /\ call.ret.kind = "session"
       /\ call.ret.user.id = call.token.payload.userId
       /\ call.ret.user.email = call.token.payload.email
       /\ \A k \in {"name", "role", "permissions"} :
            /\ (k \in DOMAIN call.ret.user) <=> HasClaim(call.token, k)
            /\ HasClaim(call.token, k) => call.ret.user[k] = call.token.payload[k]

C3_Witness ==
    /\ call.op = "getSession"
    /\ call.ret.kind = "session"
    /\ HasClaim(call.token, "exp")
    /\ DOMAIN call.ret.user = {"id", "email", "name", "permissions"}
    /\ call.ret.user.name = "Ann"

\* C4: hasRole(r) is false when getSession() gives no session, and is true only
\* when the session has a role field equal to r: a token without a role claim
\* gives false for every r.
C4_HasRoleExact ==
    call.op = "hasRole"
    => /\ ~call.threw
       /\ SessionOfCall.kind = "null" => call.ret = FALSE
       /\ call.ret = TRUE =>
            /\ SessionOfCall.kind = "session"
            /\ "role" \in DOMAIN SessionOfCall.user
            /\ SessionOfCall.user.role = call.arg
            /\ HasClaim(call.token, "role")
            /\ call.token.payload.role = call.arg
       /\ (~Falsy(call.token) /\ ~HasClaim(call.token, "role")) => call.ret = FALSE

C4_Witness ==
    /\ call.op = "hasRole"
    /\ call.arg = "admin"
    /\ call.ret = TRUE

\* C5: isAuthenticated(), hasRole(role) and hasPermission(p) are derivations of
\* getSession() on the same cookie and clock: session present; session present
\* with that role; session present with p among its permissions (false without
\* a permissions field). None is true where getSession() returns null, and none
\* logs or throws otherwise than getSession() does.
C5_DerivedPredicates ==
    call.op \in {"isAuthenticated", "hasRole", "hasPermission"}
    => LET g == getSession(call.token, call.tVerify, call.tNow)
           s == g.ret
       IN  /\ call.threw = g.threw
           /\ call.lines = g.lines
           /\ call.op = "isAuthenticated" => call.ret = (s.kind # "null")
           /\ call.op = "hasRole" =>
                call.ret = (/\ s.kind # "null"
                            /\ "role" \in DOMAIN s.user
                            /\ s.user.role = call.arg)
           /\ call.op = "hasPermission" =>
                call.ret = (/\ s.kind # "null"
                            /\ "permissions" \in DOMAIN s.user
                            /\ Includes(s.user.permissions, call.arg))
           /\ s.kind = "null" => call.ret = FALSE

C5_Witness ==
    /\ call.op = "hasPermission"
    /\ call.ret = TRUE
    /\ SessionOfCall.kind = "session"

\* C6 (as claimed): a getSession() call changes nothing but the log; it writes a
\* log line on every null return caused by a malformed, expired or forged token,
\* and none when the cookie is absent or a session is returned.
C6_Original ==
    [][call'.op = "getSession" =>
        /\ cookie' = cookie
        /\ UNCHANGED routingVars
        /\ log' = log \o call'.lines
        /\ (call'.lines # <<>>) <=> (call'.ret = Null /\ ~Falsy(call'.token))]_vars

\* C7 (as claimed): two getSession() calls with the same valid token return
\* equal sessions, whatever the clock reads at each call.
C7_Original ==
    [][(/\ call.op = "getSession"
        /\ call'.op = "getSession"
        /\ call'.token = call.token
        /\ call.ret.kind = "session"
        /\ call'.ret.kind = "session")
       => call'.ret = call.ret]_vars

----------------------------------------------------------------------------
(* Locale configuration and the route table: i18n/config.ts, i18n/routing.ts *)

\* A path is the sequence of its segments: "/" is <<>>, "/brand/[id]" is
\* <<"brand", "[id]">>.
locales == <<"nl", "en", "de", "fr">>

Locales == {locales[i] : i \in 1..Len(locales)}

defaultLocale == "nl"

isValidLocale(locale) == locale \in Locales

\* A routing configuration that omits the prefix for the default locale.
localePrefix_AsNeeded == "as-needed"

localePrefix == "always"

DynamicSegments == {"[id]", "[slug]"}

\* The keys of routing.pathnames, in source order.
PathnameKeys ==
    << <<>>, <<"product">>, <<"product", "[id]">>, <<"brand", "[id]">>,
       <<"blog">>, <<"blog", "[slug]">>, <<"contact">> >>

Pathnames == {PathnameKeys[i] : i \in 1..Len(PathnameKeys)}

\* The entries that are a per-locale object and not one string.
IsLocalized(key) == key \in {<<"brand", "[id]">>, <<"contact">>}

\* A route table whose Dutch brand page was given the product page's path.
pathnames_BrandAsProduct(key, locale) ==
    IF key = <<"brand", "[id]">>
    THEN CASE locale = "nl" -> <<"product", "[id]">>
           [] locale = "en" -> <<"brand", "[id]">>
           [] locale = "de" -> <<"marke", "[id]">>
           [] locale = "fr" -> <<"marque", "[id]">>
    ELSE IF key = <<"contact">>
    THEN CASE locale = "de" -> <<"kontakt">>
           [] OTHER -> <<"contact">>
    ELSE key

\* A route table whose German contact page was given the blog's path.
pathnames_ContactAsBlog(key, locale) ==
    IF key = <<"brand", "[id]">>
    THEN CASE locale = "nl" -> <<"merk", "[id]">>
           [] locale = "en" -> <<"brand", "[id]">>
           [] locale = "de" -> <<"marke", "[id]">>
           [] locale = "fr" -> <<"marque", "[id]">>
    ELSE IF key = <<"contact">>
    THEN CASE locale = "de" -> <<"blog">>
           [] OTHER -> <<"contact">>
    ELSE key

\* routing.pathnames[key], read for a locale: the entry itself when it is a
\* string, its member for the locale when it is an object.
pathnames(key, locale) ==
    IF key = <<"brand", "[id]">>
    THEN CASE locale = "nl" -> <<"merk", "[id]">>
           [] locale = "en" -> <<"brand", "[id]">>
           [] locale = "de" -> <<"marke", "[id]">>
           [] locale = "fr" -> <<"marque", "[id]">>
    ELSE IF key = <<"contact">>
    THEN CASE locale = "nl" -> <<"contact">>
           [] locale = "en" -> <<"contact">>
           [] locale = "de" -> <<"kontakt">>
           [] locale = "fr" -> <<"contact">>
    ELSE key

\* next-intl's getSortedPathnames of the keys: a shorter path before a longer
\* one, a static segment before a dynamic one, the rest in source order.
SortedPathnames ==
    << <<>>, <<"product">>, <<"blog">>, <<"contact">>,
       <<"product", "[id]">>, <<"brand", "[id]">>, <<"blog", "[slug]">> >>

\* next-intl's matchesPathname: the template as a pattern, [x] one segment.
matchesPathname(template, pathname) ==
    /\ Len(template) = Len(pathname)
    /\ \A i \in 1..Len(template) :
         template[i] \in DynamicSegments \/ template[i] = pathname[i]

\* The value `pathname` has for the parameter `name` of `template`.
ParamOf(pathname, template, name) ==
    pathname[CHOOSE i \in 1..Len(template) : template[i] = name]

\* next-intl's formatTemplatePathname: the parameters of sourcePathname, read
\* with sourceTemplate, filled into targetTemplate.
formatTemplatePathname(sourcePathname, sourceTemplate, targetTemplate) ==
    [i \in 1..Len(targetTemplate) |->
        IF targetTemplate[i] \in DynamicSegments
        THEN ParamOf(sourcePathname, sourceTemplate, targetTemplate[i])
        ELSE targetTemplate[i]]

\* The locales of a per-locale entry in the order they are tried: the current
\* locale first, then the others as written.
EntryOrder(locale) ==
    <<locale>> \o SelectSeq(locales, LAMBDA l : l # locale)

NoTemplate == [found |-> FALSE]

\* Whether `key` matches `pathname`, and through which locale's template
\* ("" for an entry that is one string).
EntryMatch(key, pathname, locale) ==
    IF ~IsLocalized(key)
    THEN IF matchesPathname(pathnames(key, locale), pathname)
         THEN [found |-> TRUE, locale |-> "", template |-> key]
         ELSE NoTemplate
    ELSE LET order == EntryOrder(locale)
             hits == {i \in 1..Len(order) :
                        matchesPathname(pathnames(key, order[i]), pathname)}
         IN  IF hits = {} THEN NoTemplate
             ELSE [found |-> TRUE,
                   locale |-> order[CHOOSE i \in hits : \A j \in hits : i <= j],
                   template |-> key]

\* next-intl's getInternalTemplate: the first key, in sorted order, with a
\* localized template that matches; failing that, a key that matches as written.
getInternalTemplate(pathname, locale) ==
    LET hits == {i \in 1..Len(SortedPathnames) :
                    EntryMatch(SortedPathnames[i], pathname, locale).found}
        plain == {i \in 1..Len(PathnameKeys) :
                    matchesPathname(PathnameKeys[i], pathname)}
    IN  IF hits # {}
        THEN EntryMatch(SortedPathnames[CHOOSE i \in hits : \A j \in hits : i <= j],
                        pathname, locale)
        ELSE IF plain # {}
        THEN [found |-> TRUE, locale |-> "",
              template |-> PathnameKeys[CHOOSE i \in plain : \A j \in plain : i <= j]]
        ELSE NoTemplate

\* String.prototype.toLowerCase on a path segment.
toLowerCase(segment) ==
    CASE segment = "NL" -> "nl"
      [] OTHER -> segment

NoMatch == [matched |-> FALSE]

\* next-intl's getPathnameMatch: the locale whose prefix the path starts with,
\* exactly or, failing that, ignoring case.
getPathnameMatch(path) ==
    IF path = <<>> THEN NoMatch
    ELSE IF path[1] \in Locales
        THEN [matched |-> TRUE, locale |-> path[1], exact |-> TRUE]
    ELSE IF toLowerCase(path[1]) \in Locales
        THEN [matched |-> TRUE, locale |-> toLowerCase(path[1]), exact |-> FALSE]
    ELSE NoMatch

\* The first language of Accept-Language that is a locale, else the default.
getAcceptLanguageLocale(languages) ==
    LET hits == {i \in 1..Len(languages) : languages[i] \in Locales}
    IN  IF hits = {} THEN defaultLocale
        ELSE languages[CHOOSE i \in hits : \A j \in hits : i <= j]

\* next-intl's resolveLocale (localeDetection is left at its default, true):
\* the path's prefix, then the NEXT_LOCALE cookie, then Accept-Language, then
\* the default locale.
resolveLocale(req) ==
    LET m == getPathnameMatch(req.path)
    IN  IF m.matched THEN m.locale
        ELSE IF req.localeCookie \in Locales THEN req.localeCookie
        ELSE getAcceptLanguageLocale(req.acceptLanguage)

----------------------------------------------------------------------------
(* The edge middleware: middleware.ts                                      *)

Redirect(path) ==
    [kind |-> "redirect", status |-> 307, headers |-> ("location" :> path)]

Rewrite(path) ==
    [kind |-> "rewrite", status |-> 200, headers |-> ("x-middleware-rewrite" :> path)]

\* intlMiddleware = createMiddleware(routing): next-intl's middleware for the
\* routing configuration (locale prefix, localized pathnames, no domains).
intlMiddleware(req) ==
    LET locale == resolveLocale(req)
        m == getPathnameMatch(req.path)
        hasLocalePrefix == m.matched
        hasMatchedDefaultLocale == locale = defaultLocale
        unprefixedExternalPathname == IF hasLocalePrefix THEN Tail(req.path) ELSE req.path
        isUnprefixedRouting ==
            \/ localePrefix = "never"
            \/ hasMatchedDefaultLocale /\ localePrefix = "as-needed"
        t == getInternalTemplate(unprefixedExternalPathname, locale)
        localeTemplate == pathnames(t.template, locale)
        matchesLocaleTemplate ==
            t.found /\ matchesPathname(localeTemplate, unprefixedExternalPathname)
        sourceTemplate ==
            IF t.locale # "" THEN pathnames(t.template, t.locale) ELSE t.template
        unprefixedInternalPathname ==
            IF matchesLocaleTemplate
            THEN formatTemplatePathname(unprefixedExternalPathname, localeTemplate, t.template)
            ELSE unprefixedExternalPathname
        internalHref == <<locale>> \o unprefixedInternalPathname
    IN  IF t.found /\ ~matchesLocaleTemplate
        THEN Redirect((IF isUnprefixedRouting THEN <<>> ELSE <<locale>>)
                      \o formatTemplatePathname(unprefixedExternalPathname,
                                                sourceTemplate, localeTemplate))
        ELSE IF unprefixedInternalPathname = <<>> /\ ~hasLocalePrefix
        THEN IF isUnprefixedRouting
             THEN Rewrite(<<locale>>)
             ELSE Redirect(<<locale>> \o unprefixedExternalPathname)
        ELSE IF hasLocalePrefix
        THEN IF localePrefix = "never"
             THEN Redirect(unprefixedExternalPathname)
             ELSE IF m.exact
             THEN IF hasMatchedDefaultLocale /\ isUnprefixedRouting
                  THEN Redirect(unprefixedExternalPathname)
                  ELSE Rewrite(internalHref)
             ELSE Redirect(<<m.locale>> \o unprefixedExternalPathname)
        ELSE IF isUnprefixedRouting
        THEN Rewrite(internalHref)
        ELSE Redirect(<<locale>> \o unprefixedExternalPathname)

cspDirectives ==
    "default-src 'self'; script-src 'self' 'unsafe-inline' 'unsafe-eval' https://www.googletagmanager.com https://www.google.com https://www.gstatic.com; style-src 'self' 'unsafe-inline' https://fonts.googleapis.com; font-src 'self' https://fonts.gstatic.com; img-src 'self' data: https: blob:; connect-src 'self' https://api.foodbook.psinfoodservice.com https://webapi.psinfoodservice.com https://psinfoodservice.online; frame-src 'self' https://www.google.com; object-src 'none'; base-uri 'self'; form-action 'self'; frame-ancestors 'self'; upgrade-insecure-requests"

SecurityHeaderNames ==
    {"X-DNS-Prefetch-Control", "Strict-Transport-Security", "X-Frame-Options",
     "X-Content-Type-Options", "Referrer-Policy", "Permissions-Policy",
     "Content-Security-Policy"}

getSecurityHeaders ==
    [h \in SecurityHeaderNames |->
        CASE h = "X-DNS-Prefetch-Control" -> "on"
          [] h = "Strict-Transport-Security" -> "max-age=31536000; includeSubDomains"
          [] h = "X-Frame-Options" -> "SAMEORIGIN"
          [] h = "X-Content-Type-Options" -> "nosniff"
          [] h = "Referrer-Policy" -> "strict-origin-when-cross-origin"
          [] h = "Permissions-Policy" ->
                "camera=(), microphone=(), geolocation=(), interest-cohort=()"
          [] h = "Content-Security-Policy" -> cspDirectives]

\* As SetHeaders, but nothing is set on the response.
SetHeaders_Nothing(headers, extra) == headers

\* response.headers.set(key, value) for every security header.
SetHeaders(headers, extra) ==
    [h \in DOMAIN headers \cup DOMAIN extra |->
        IF h \in DOMAIN extra THEN extra[h] ELSE headers[h]]

\* middleware(request): the i18n middleware, then the security headers.
middleware(req) ==
    LET res == intlMiddleware(req)
    IN  [res EXCEPT !.headers = SetHeaders(res.headers, getSecurityHeaders)]

\* The characters of a path segment (the segments requests and links are made of).
Chars(segment) ==
    CASE segment = "nl" -> <<"n", "l">>
      [] segment = "en" -> <<"e", "n">>
      [] segment = "de" -> <<"d", "e">>
      [] segment = "fr" -> <<"f", "r">>
      [] segment = "NL" -> <<"N", "L">>
      [] segment = "es" -> <<"e", "s">>
      [] segment = "42" -> <<"4", "2">>
      [] segment = "product" -> <<"p", "r", "o", "d", "u", "c", "t">>
      [] segment = "brand" -> <<"b", "r", "a", "n", "d">>
      [] segment = "merk" -> <<"m", "e", "r", "k">>
      [] segment = "marke" -> <<"m", "a", "r", "k", "e">>
      [] segment = "marque" -> <<"m", "a", "r", "q", "u", "e">>
      [] segment = "contact" -> <<"c", "o", "n", "t", "a", "c", "t">>
      [] segment = "kontakt" -> <<"k", "o", "n", "t", "a", "k", "t">>
      [] segment = "blog" -> <<"b", "l", "o", "g">>
      [] segment = "login" -> <<"l", "o", "g", "i", "n">>
      [] segment = "logout" -> <<"l", "o", "g", "o", "u", "t">>
      [] segment = "account" -> <<"a", "c", "c", "o", "u", "n", "t">>
      [] segment = "orders" -> <<"o", "r", "d", "e", "r", "s">>
      [] segment = "settings" -> <<"s", "e", "t", "t", "i", "n", "g", "s">>
      [] segment = "privacy" -> <<"p", "r", "i", "v", "a", "c", "y">>
      [] segment = "terms" -> <<"t", "e", "r", "m", "s">>
      [] segment = "cookies" -> <<"c", "o", "o", "k", "i", "e", "s">>
      [] segment = "api" -> <<"a", "p", "i">>
      [] segment = "apiary" -> <<"a", "p", "i", "a", "r", "y">>
      [] segment = "_next" -> <<"_", "n", "e", "x", "t">>
      [] segment = "static" -> <<"s", "t", "a", "t", "i", "c">>
      [] segment = "image" -> <<"i", "m", "a", "g", "e">>
      [] segment = "data" -> <<"d", "a", "t", "a">>
      [] segment = "favicon.ico" -> <<"f", "a", "v", "i", "c", "o", "n", ".", "i", "c", "o">>
      [] segment = "faviconxico" -> <<"f", "a", "v", "i", "c", "o", "n", "x", "i", "c", "o">>
      [] segment = "sitemap.xml" -> <<"s", "i", "t", "e", "m", "a", "p", ".", "x", "m", "l">>
      [] segment = "robots.txt" -> <<"r", "o", "b", "o", "t", "s", ".", "t", "x", "t">>
      [] segment = "images" -> <<"i", "m", "a", "g", "e", "s">>
      [] segment = "videos" -> <<"v", "i", "d", "e", "o", "s">>
      [] segment = "fonts" -> <<"f", "o", "n", "t", "s">>

\* The segments of a path, each after a "/", as one string of characters.
RECURSIVE Join(_)
Join(path) ==
    IF path = <<>> THEN <<>>
    ELSE <<"/">> \o Chars(Head(path)) \o Join(Tail(path))

\* request.nextUrl.pathname: "/" for the root, else the segments after "/"s.
Pathname(path) == IF path = <<>> THEN <<"/">> ELSE Join(path)

\* The alternatives of the matcher's negative lookahead; an unescaped "." of the
\* regular expression stands for any one character.
ExcludedPrefixes ==
    {<<"a", "p", "i">>,
     <<"_", "n", "e", "x", "t", "/", "s", "t", "a", "t", "i", "c">>,
     <<"_", "n", "e", "x", "t", "/", "i", "m", "a", "g", "e">>,
     <<"f", "a", "v", "i", "c", "o", "n", ".", "i", "c", "o">>,
     <<"s", "i", "t", "e", "m", "a", "p", ".", "x", "m", "l">>,
     <<"r", "o", "b", "o", "t", "s", ".", "t", "x", "t">>,
     <<"i", "m", "a", "g", "e", "s">>,
     <<"v", "i", "d", "e", "o", "s">>,
     <<"f", "o", "n", "t", "s">>}

\* A regular expression of literal characters and "."s matches at the start of text.
MatchesAt(pattern, text) ==
    /\ Len(pattern) <= Len(text)
    /\ \A i \in 1..Len(pattern) : pattern[i] = "." \/ pattern[i] = text[i]

\* config.matcher: '/((?!api|_next/static|...|fonts).*)' tested on the pathname;
\* the middleware runs on the request exactly when the pattern matches.
matcher(path) ==
    LET text == Pathname(path)
    IN  /\ Head(text) = "/"
        /\ \A p \in ExcludedPrefixes : ~MatchesAt(p, Tail(text))

\* Where a response sends or takes the request.
Target(res) ==
    IF res.kind = "redirect" THEN res.headers["location"]
    ELSE res.headers["x-middleware-rewrite"]

\* next-intl's compileLocalizedPathname: the template with its parameter filled in.
Compile(template, param) ==
    [i \in 1..Len(template) |->
        IF template[i] \in DynamicSegments THEN param ELSE template[i]]

\* getPathname / <Link href>: the localized template of href for the locale (href
\* itself when the table has no such key), compiled, under the locale's prefix.
getPathname(locale, href, param) ==
    <<locale>> \o Compile(IF href \in Pathnames THEN pathnames(href, locale) ELSE href,
                          param)

\* The requests a browser may send.
PathSegments ==
    {"product", "brand", "merk", "marke", "contact", "kontakt", "blog", "42", "es"}

FirstSegments == {<<>>} \cup {<<l>> : l \in Locales \cup {"NL"}}

\* Paths the deployment serves beside the pages (API routes, build output,
\* public assets, metadata files) and paths that start like one of them.
BesidePaths ==
    {head \o rest :
        head \in {<<"api">>, <<"apiary">>, <<"_next", "static">>, <<"_next", "image">>,
                  <<"_next", "data">>, <<"images">>, <<"videos">>, <<"fonts">>,
                  <<"favicon.ico">>, <<"faviconxico">>, <<"robots.txt">>,
                  <<"sitemap.xml">>},
        rest \in {<<>>, <<"42">>}}

Tails == UNION {[1..n -> PathSegments] : n \in 0..MaxTail}

LocaleCookies == {"", "de", "es"}

AcceptLanguages == {<<>>, <<"fr">>, <<"es", "en">>}

ParamValues == {"42", "kontakt"}

ParamsFor(href) ==
    IF \E i \in 1..Len(href) : href[i] \in DynamicSegments THEN ParamValues ELSE {""}

Direct == [kind |-> "direct"]

\* The response to a request the middleware did not run on: whatever serves the
\* path answers, with no header of the middleware.
Skipped == [kind |-> "skipped", status |-> 200, headers |-> <<>>]

----------------------------------------------------------------------------
(* The request configuration: src/i18n/request.ts                          *)

\* await import(`../../messages/${locale}.json`): the module of that locale's file.
importMessages(locale) == [default |-> [file |-> <<"messages", locale>>]]

\* As getRequestConfig, but the requested locale is used without validation.
getRequestConfig_Unchecked(requestLocale) ==
    LET locale == IF requestLocale.kind = "undefined" THEN defaultLocale
                  ELSE requestLocale.value
    IN  [locale |-> locale, messages |-> importMessages(locale).default]

\* The callback given to getRequestConfig.
getRequestConfig(requestLocale) ==
    LET locale ==
            IF \/ requestLocale.kind = "undefined"
               \/ requestLocale.value = ""
               \/ ~Includes(locales, requestLocale.value)
            THEN defaultLocale
            ELSE requestLocale.value
    IN  [locale |-> locale, messages |-> importMessages(locale).default]

\* requestLocale: the locale the middleware resolved (it passes it on with the
\* rewrite); without the middleware, the [locale] segment of the path when the
\* page registered it, else undefined.
RequestLocales(req, res) ==
    IF res.kind = "rewrite" THEN {Str(Target(res)[1])}
    ELSE {Undefined} \cup {Str(req.path[i]) : i \in {1} \cap DOMAIN req.path}

----------------------------------------------------------------------------
(* The links of the layout: header, navigation, user menu, footer.         *)

\* header.tsx: the logo.
headerLinks == {<<>>}

\* header-navigation.tsx and mobile-menu.tsx: navigationLinks.
navigationLinks == {<<>>, <<"product">>, <<"brand">>, <<"blog">>, <<"contact">>}

\* user-menu.tsx: the login button and the entries of the dropdown.
userMenuLinks ==
    {<<"login">>, <<"account">>, <<"orders">>, <<"settings">>, <<"logout">>}

\* footer.tsx: the logo and the legal links of the bottom bar.
footerLinks == {<<>>, <<"privacy">>, <<"terms">>, <<"cookies">>}

LinkHrefs == headerLinks \cup navigationLinks \cup userMenuLinks \cup footerLinks

InitRouting ==
    /\ cookie = NoCookie
    /\ now = 0
    /\ log = <<>>
    /\ call = NoCall
    /\ \E path \in {first \o tail : first \in FirstSegments, tail \in Tails}
                    \cup BesidePaths,
          c \in LocaleCookies, a \in AcceptLanguages :
            request = [kind |-> "request", path |-> path, localeCookie |-> c,
                       acceptLanguage |-> a, origin |-> Direct]
    /\ response = NoResponse
    /\ config = NoConfig
    /\ RemoteIdle
    /\ QueryIdle

\* The matcher selects the request: the middleware handles it.
Middleware ==
    /\ request.kind = "request"
    /\ response = NoResponse
    /\ matcher(request.path)
    /\ response' = middleware(request)
    /\ UNCHANGED <<request, config, sessionVars, remoteVars, queryVars>>

\* The matcher does not select the request: it is served without the middleware.
Skip ==
    /\ request.kind = "request"
    /\ response = NoResponse
    /\ ~matcher(request.path)
    /\ response' = Skipped
    /\ UNCHANGED <<request, config, sessionVars, remoteVars, queryVars>>

\* The page is rendered and next-intl resolves the request configuration.
GetRequestConfig ==
    /\ response.kind \in {"rewrite", "skipped"}
    /\ config = NoConfig
    /\ \E requestLocale \in RequestLocales(request, response) :
         config' = [kind |-> "config", requestLocale |-> requestLocale,
                    result |-> getRequestConfig(requestLocale)]
    /\ UNCHANGED <<request, response, sessionVars, remoteVars, queryVars>>

\* The browser follows a redirect.
FollowRedirect ==
    /\ response.kind = "redirect"
    /\ request' = [request EXCEPT !.path = Target(response),
                                  !.origin = [kind |-> "redirect"]]
    /\ response' = NoResponse
    /\ UNCHANGED <<config, sessionVars, remoteVars, queryVars>>

\* On a served page the user follows a <Link href>, rendered for the page's locale.
ClickLink ==
    /\ response.kind = "rewrite"
    /\ \E href \in Pathnames \cup LinkHrefs :
         \E param \in ParamsFor(href) :
            request' = [request EXCEPT
                          !.path = getPathname(request.path[1], href, param),
                          !.origin = [kind |-> "link", locale |-> request.path[1],
                                      href |-> href, param |-> param]]
    /\ response' = NoResponse
    /\ config' = NoConfig
    /\ UNCHANGED <<sessionVars, remoteVars, queryVars>>

NextRouting == Middleware \/ Skip \/ GetRequestConfig \/ FollowRedirect \/ ClickLink

SpecRouting == InitRouting /\ [][NextRouting]_vars

----------------------------------------------------------------------------
(* Claims about routing, checked under SpecRouting.                        *)

Handled == request.kind = "request" /\ response.kind \in {"redirect", "rewrite"}

FromLink == request.kind = "request" /\ request.origin.kind = "link"

\* The route-table keys with a template, in some locale, that the path matches.
KeysMatching(path) ==
    {k \in Pathnames : \E l \in Locales : matchesPathname(pathnames(k, l), path)}

\* C8: for every locale L and every abstract path P of the route table, a link
\* to P under L is a concrete path under the prefix L that resolves back to P
\* under L, and the middleware serves it as P (with the same parameter) under L.
C8_RoundTrip ==
    (FromLink /\ request.origin.href \in Pathnames)
    => LET L == request.origin.locale
           P == request.origin.href
           v == request.origin.param
       IN  /\ request.path # <<>>
           /\ request.path[1] = L
           /\ Len(request.path) = 1 + Len(P)
           /\ \A i \in 1..Len(P) : P[i] \in DynamicSegments => request.path[i + 1] = v
           /\ getInternalTemplate(Tail(request.path), L).found
           /\ getInternalTemplate(Tail(request.path), L).template = P
           /\ response # NoResponse =>
                /\ response.kind = "rewrite"
                /\ Target(response) = <<L>> \o Compile(P, v)

C8_Witness ==
    /\ FromLink
    /\ request.origin.href = <<"brand", "[id]">>
    /\ request.origin.locale = "fr"
    /\ request.path = <<"fr", "marque", "42">>
    /\ response.kind = "rewrite"
    /\ Target(response) = <<"fr", "brand", "42">>

\* C9: within one locale no two distinct keys of the route table have the same
\* localized template, and the path of a request matches the localized template
\* of at most one key under the request's locale.
C9_Deterministic ==
    /\ \A l \in Locales : \A k1, k2 \in Pathnames :
         pathnames(k1, l) = pathnames(k2, l) => k1 = k2
    /\ request.kind = "request" =>
         LET l == resolveLocale(request)
             m == getPathnameMatch(request.path)
             path == IF m.matched THEN Tail(request.path) ELSE request.path
         IN  Cardinality({k \in Pathnames : matchesPathname(pathnames(k, l), path)}) <= 1

C9_Witness ==
    /\ Handled
    /\ request.path = <<"de", "kontakt">>
    /\ {k \in Pathnames : matchesPathname(pathnames(k, "de"), <<"kontakt">>)}
         = {<<"contact">>}
    /\ response.kind = "rewrite"
    /\ Target(response) = <<"de", "contact">>

PreferredLocales(req) ==
    IF req.localeCookie \in Locales THEN {req.localeCookie}
    ELSE LET hits == {i \in 1..Len(req.acceptLanguage) :
                        req.acceptLanguage[i] \in Locales}
         IN  {req.acceptLanguage[i] : i \in {j \in hits : \A h \in hits : j <= h}}

\* The path as the locale names it: a path of the route table (under any
\* locale's name) by that locale's template, any other path unchanged.
LocalizedFor(path, locale) ==
    IF KeysMatching(path) = {} THEN path
    ELSE LET template == pathnames(CHOOSE k \in KeysMatching(path) : TRUE, locale)
         IN  [i \in 1..Len(path) |->
                IF template[i] \in DynamicSegments THEN path[i] ELSE template[i]]

C11_ResolvedLocale ==
    config # NoConfig
    => LET asked == config.requestLocale
           resolved == config.result.locale
           valid == asked.kind = "string" /\ isValidLocale(asked.value)
       IN  /\ Cardinality({l \in Locales : l = resolved}) = 1
           /\ ~valid => resolved = defaultLocale
           /\ valid => resolved = asked.value
           /\ config.result.messages = [file |-> <<"messages", resolved>>]

C11_Witness ==
    /\ config # NoConfig
    /\ response.kind = "skipped"
    /\ config.requestLocale = Str("apiary")
    /\ config.result.locale = "nl"

\* C12 (as claimed): every href given to a localized Link in the header, the
\* user menu and the footer is a key of the route table, and the link resolves
\* to a path under the locale it is rendered for.
C12_Original ==
    FromLink
    => /\ request.origin.href \in Pathnames
       /\ request.path # <<>>
       /\ request.path[1] = request.origin.locale

\* C13: for every request the middleware handles, the response is the one the
\* locale step returns for the request (a redirect as much as a pass-through)
\* with the seven security headers set on it afterwards, each to its fixed
\* literal value; the status and every other header are the locale step's.
C13_LocaleThenHeaders ==
    Handled
    => LET step == intlMiddleware(request)
       IN  /\ response.kind = step.kind
           /\ response.status = step.status
           /\ DOMAIN response.headers = DOMAIN step.headers \cup SecurityHeaderNames
           /\ Cardinality(SecurityHeaderNames) = 7
           /\ \A h \in DOMAIN step.headers \ SecurityHeaderNames :
                 response.headers[h] = step.headers[h]
           /\ response.headers["X-DNS-Prefetch-Control"] = "on"
           /\ response.headers["Strict-Transport-Security"]
                 = "max-age=31536000; includeSubDomains"
           /\ response.headers["X-Frame-Options"] = "SAMEORIGIN"
           /\ response.headers["X-Content-Type-Options"] = "nosniff"
           /\ response.headers["Referrer-Policy"] = "strict-origin-when-cross-origin"
           /\ response.headers["Permissions-Policy"]
                 = "camera=(), microphone=(), geolocation=(), interest-cohort=()"
           /\ response.headers["Content-Security-Policy"] = cspDirectives

C13_Witness ==
    /\ Handled
    /\ request.path = <<"kontakt">>
    /\ response.kind = "redirect"
    /\ response.status = 307
    /\ response.headers["location"] = <<"nl", "contact">>
    /\ response.headers["X-Frame-Options"] = "SAMEORIGIN"

\* The paths the middleware is said to leave out: API routes, static files,
\* public assets and the three metadata files.
SaidExcluded(path) ==
    /\ path # <<>>
    /\ \/ path[1] = "api"
       \/ path[1] = "_next" /\ Len(path) >= 2 /\ path[2] \in {"static", "image"}
       \/ path[1] \in {"images", "videos", "fonts"}
       \/ path[1] \in {"favicon.ico", "robots.txt", "sitemap.xml"}

\* C14 (as claimed): a request path is skipped by the middleware exactly when it
\* is an API route, a static file, a public asset or one of favicon.ico,
\* robots.txt and sitemap.xml; every other path gets locale handling and the
\* security headers.
C14_Original ==
    (request.kind = "request" /\ response # NoResponse)
    => /\ response.kind = "skipped" <=> SaidExcluded(request.path)
       /\ ~SaidExcluded(request.path) =>
            /\ response.kind \in {"redirect", "rewrite"}
            /\ SecurityHeaderNames \subseteq DOMAIN response.headers

----------------------------------------------------------------------------
(* Remote data: src/lib/api/wordpress.ts and the product fetcher.          *)

\* A wrapper invocation may start while fewer requests than this were issued.
MaxOutbound == 2

\* const WP_API_URL = process.env.NEXT_PUBLIC_WP_API_URL
WP_API_URL == env["NEXT_PUBLIC_WP_API_URL"]

\* !WP_API_URL: the variable is not set, or is set to the empty string.
IsUnset(value) == value.kind = "undefined" \/ value.value = ""

\* A string of one unpaired surrogate code unit (U+D800).
LoneSurrogate == "<U+D800>"

FooterSlugs == <<"footer-company", "footer-support", "footer-legal">>

MenuSlugs == {"footer-company", "our team", LoneSurrogate}

PageSlugs == {"about"}

\* encodeURIComponent: unreserved characters stay, a space becomes %20, and an
\* unpaired surrogate makes it throw a URIError.
encodeURIComponent(str) ==
    CASE str = LoneSurrogate -> Throw("URIError")
      [] str = "our team" -> [ok |-> TRUE, value |-> "our%20team"]
      [] OTHER -> [ok |-> TRUE, value |-> str]

\* What the upstream does with a request: the network fails, or a response
\* with a status and a body arrives.
NetworkFailure == [kind |-> "network"]

Unparsable == [kind |-> "unparsable"]

Json(value) == [kind |-> "json", value |-> value]

Resp(status, body) == [kind |-> "response", status |-> status, body |-> body]

\* response.ok: the status is in the range 200-299.
Ok(outcome) == outcome.status >= 200 /\ outcome.status <= 299

FailureStatuses == {404, 500}

\* The items of the menu the backend keeps under a slug: n of them.
\* The url of the i-th item of a menu, as the pieces of the string: a path of
\* this site, an absolute URL of the WordPress host or of another host, a
\* protocol-relative URL of another host, a bare word.
ItemUrl(slug, i) ==
    CASE slug = "footer-company" /\ i = 1 -> <<"/", "about">>
      [] slug = "footer-company" /\ i = 2 ->
            <<"https:", "/", "/", "psinfoodservice.online", "/", "team">>
      [] slug = "footer-support" /\ i = 1 ->
            <<"https:", "/", "/", "help.example", "/", "faq">>
      [] slug = "footer-support" /\ i = 2 -> <<"/", "/", "evil.example", "/", "x">>
      [] slug = "footer-legal" /\ i = 1 -> <<"privacy">>
      [] slug = "footer-legal" /\ i = 2 ->
            <<"https:", "/", "/", "psinfoodservice.online">>
      [] OTHER -> <<"/">>

\* The target of the i-th item: '_blank' for one item, '' for the others.
ItemTarget(slug, i) == IF i = 2 /\ slug = "footer-company" THEN "_blank" ELSE ""

MenuItems(slug, n) ==
    [i \in 1..n |-> [ID |-> i, title |-> <<slug, i>>, url |-> ItemUrl(slug, i),
                     target |-> ItemTarget(slug, i)]]

Menu(slug, n) == [kind |-> "menu", slug |-> slug, items |-> MenuItems(slug, n)]

Page(slug, id) == [kind |-> "page", id |-> id, slug |-> slug]

Post(id) == [kind |-> "post", id |-> id]

Failures ==
    {NetworkFailure} \cup {Resp(st, Unparsable) : st \in FailureStatuses}
    \cup {Resp(200, Unparsable)}

MenuOutcomes(slug) == Failures \cup {Resp(200, Json(Menu(slug, n))) : n \in {0, 2}}

PageOutcomes(slug) ==
    Failures \cup {Resp(200, Json([i \in 1..n |-> Page(slug, i)])) : n \in 0..2}

PostsOutcomes == Failures \cup {Resp(200, Json([i \in 1..n |-> Post(i)])) : n \in {0, 2}}

\* The result of an invocation: what it returned or that it threw, the lines
\* it logged, the requests it issued with fetch, and whether its catch block ran.
Result(threw, ret, lines, requests, caught) ==
    [threw |-> threw, ret |-> ret, lines |-> lines, requests |-> requests,
     caught |-> caught]

\* As Caught, but the error leaves the wrapper.
Caught_Rethrown(line, fallback, requests) ==
    Result(TRUE, Null, <<>>, requests, FALSE)

\* catch (error) { console.error(line, error); return fallback; }
Caught(line, fallback, requests) ==
    Result(FALSE, fallback, <<line>>, requests, TRUE)

\* new Error(`WordPress API error: ${status} ${statusText}`)
ApiError(outcome) == <<"WordPress API error", outcome.status>>

\* fetch(url) and response.json(), as far as they can fail.
FetchError(outcome) ==
    IF outcome.kind = "network" THEN "TypeError: fetch failed"
    ELSE "SyntaxError"

menuUrl(encoded) ==
    [base |-> WP_API_URL.value, path |-> <<"menus", "v1", "menus", encoded>>,
     query |-> <<>>]

\* As getWordPressMenu, but a request that failed is issued once more.
getWordPressMenu_Retry(slug, outcome) ==
    LET enc == encodeURIComponent(slug)
        line(e) == <<"Failed to fetch WordPress menu", slug, e>>
        url == menuUrl(enc.value)
    IN  IF ~enc.ok THEN Caught(line(enc.error), Null, <<>>)
        ELSE IF outcome.kind = "network"
        THEN Caught(line(FetchError(outcome)), Null, <<url, url>>)
        ELSE IF ~Ok(outcome)
        THEN IF outcome.status = 404 THEN Result(FALSE, Null, <<>>, <<url>>, FALSE)
             ELSE Caught(line(ApiError(outcome)), Null, <<url, url>>)
        ELSE IF outcome.body.kind = "unparsable"
        THEN Caught(line(FetchError(outcome)), Null, <<url>>)
        ELSE Result(FALSE, outcome.body.value, <<>>, <<url>>, FALSE)

\* getWordPressMenu(slug), the upstream answering its request with outcome.
getWordPressMenu(slug, outcome) ==
    LET enc == encodeURIComponent(slug)
        line(e) == <<"Failed to fetch WordPress menu", slug, e>>
        url == menuUrl(enc.value)
    IN  IF ~enc.ok THEN Caught(line(enc.error), Null, <<>>)
        ELSE IF outcome.kind = "network"
        THEN Caught(line(FetchError(outcome)), Null, <<url>>)
        ELSE IF ~Ok(outcome)
        THEN IF outcome.status = 404 THEN Result(FALSE, Null, <<>>, <<url>>, FALSE)
             ELSE Caught(line(ApiError(outcome)), Null, <<url>>)
        ELSE IF outcome.body.kind = "unparsable"
        THEN Caught(line(FetchError(outcome)), Null, <<url>>)
        ELSE Result(FALSE, outcome.body.value, <<>>, <<url>>, FALSE)

\* new URLSearchParams({ slug, ...(locale !== undefined && { lang: locale }) })
pageParams(slug, locale) ==
    <<<<"slug", slug>>>> \o (IF locale.kind = "undefined" THEN <<>>
                            ELSE <<<<"lang", locale.value>>>>)

\* getWordPressPage(slug, locale), the upstream answering with outcome.
getWordPressPage(slug, locale, outcome) ==
    LET line(e) == <<"Failed to fetch WordPress page", slug, e>>
        url == [base |-> WP_API_URL.value, path |-> <<"wp", "v2", "pages">>,
                query |-> pageParams(slug, locale)]
    IN  IF outcome.kind = "network"
        THEN Caught(line(FetchError(outcome)), Null, <<url>>)
        ELSE IF ~Ok(outcome) THEN Caught(line(ApiError(outcome)), Null, <<url>>)
        ELSE IF outcome.body.kind = "unparsable"
        THEN Caught(line(FetchError(outcome)), Null, <<url>>)
        ELSE LET pages == outcome.body.value
             IN  IF Len(pages) = 0 THEN Result(FALSE, Null, <<>>, <<url>>, FALSE)
                 ELSE Result(FALSE, pages[1], <<>>, <<url>>, FALSE)

\* The params argument of getWordPressPosts: none, or some of its fields.
PostsParams ==
    {Undefined, [kind |-> "params", page |-> 2, locale |-> "de"]}

\* new URLSearchParams({ page: ... ?? '1', per_page: ... ?? '10', ... })
postsParams(params) ==
    LET has(k) == params.kind = "params" /\ k \in DOMAIN params
    IN  <<<<"page", IF has("page") THEN params.page ELSE 1>>,
          <<"per_page", IF has("per_page") THEN params.per_page ELSE 10>>>>
        \o (IF has("categories") THEN <<<<"categories", params.categories>>>> ELSE <<>>)
        \o (IF has("tags") THEN <<<<"tags", params.tags>>>> ELSE <<>>)
        \o (IF has("locale") THEN <<<<"lang", params.locale>>>> ELSE <<>>)

\* getWordPressPosts(params), the upstream answering with outcome.
getWordPressPosts(params, outcome) ==
    LET line(e) == <<"Failed to fetch WordPress posts", e>>
        url == [base |-> WP_API_URL.value, path |-> <<"wp", "v2", "posts">>,
                query |-> postsParams(params)]
    IN  IF outcome.kind = "network"
        THEN Caught(line(FetchError(outcome)), <<>>, <<url>>)
        ELSE IF ~Ok(outcome) THEN Caught(line(ApiError(outcome)), <<>>, <<url>>)
        ELSE IF outcome.body.kind = "unparsable"
        THEN Caught(line(FetchError(outcome)), <<>>, <<url>>)
        ELSE Result(FALSE, outcome.body.value, <<>>, <<url>>, FALSE)

\* The search parameters given to fetchProducts: page and pageSize are optional.
ProductSearchParams ==
    {[kind |-> "params"], [kind |-> "params", page |-> 1],
     [kind |-> "params", page |-> 0, pageSize |-> 10],
     [kind |-> "params", page |-> 0, pageSize |-> 21],
     [kind |-> "params", pageSize |-> 1]}

\* As fetchProducts, but the response carries the defaults whatever was asked.
fetchProducts_DefaultsOnly(params) ==
    Result(FALSE,
           [products |-> <<1, 2>>, total |-> 2, page |-> 0, pageSize |-> 21,
            totalPages |-> 1],
           <<>>, <<>>, FALSE)

\* fetchProducts(params): after a delay, two fixed products; no request is made.
fetchProducts(params) ==
    Result(FALSE,
           [products |-> <<1, 2>>, total |-> 2,
            page |-> IF "page" \in DOMAIN params THEN params.page ELSE 0,
            pageSize |-> IF "pageSize" \in DOMAIN params THEN params.pageSize ELSE 21,
            totalPages |-> 1],
           <<>>, <<>>, FALSE)

\* A process starts with some environment; no module is loaded yet.
InitRemote ==
    /\ cookie = NoCookie
    /\ now = 0
    /\ log = <<>>
    /\ call = NoCall
    /\ request = NoRequest
    /\ response = NoResponse
    /\ config = NoConfig
    /\ env \in [EnvVars -> {Undefined, Str("")} \cup {Str(BaseUrl(v)) : v \in EnvVars}]
    /\ \A v \in EnvVars : env[v].kind = "string" => env[v].value \in {"", BaseUrl(v)}
    /\ wordpress = "unloaded"
    /\ outbound = <<>>
    /\ tasks = <<>>
    /\ footer = NoFooter
    /\ QueryIdle

\* The module wordpress.ts is evaluated on its first import: lines 76-80.
LoadWordPress ==
    /\ wordpress = "unloaded"
    /\ wordpress' = IF IsUnset(WP_API_URL) THEN "failed" ELSE "loaded"
    /\ UNCHANGED <<sessionVars, routingVars, env, outbound, tasks, footer, queryVars>>

\* A caller invokes a wrapper of the loaded module and awaits its result.
Invoke(op, arg, outcome, r) ==
    /\ wordpress = "loaded"
    /\ Len(outbound) < MaxOutbound
    /\ Len(log) < MaxLog
    /\ call' = [op |-> op, arg |-> arg, outcome |-> outcome, threw |-> r.threw,
                ret |-> r.ret, lines |-> r.lines, requests |-> r.requests,
                caught |-> r.caught]
    /\ outbound' = outbound \o r.requests
    /\ log' = log \o r.lines
    /\ UNCHANGED <<cookie, now, routingVars, env, wordpress, tasks, footer, queryVars>>

GetWordPressMenu ==
    \E slug \in MenuSlugs : \E outcome \in MenuOutcomes(slug) :
        Invoke("getWordPressMenu", [slug |-> slug], outcome,
               getWordPressMenu(slug, outcome))

GetWordPressPage ==
    \E slug \in PageSlugs, locale \in {Undefined, Str("de")} :
        \E outcome \in PageOutcomes(slug) :
            Invoke("getWordPressPage", [slug |-> slug, locale |-> locale], outcome,
                   getWordPressPage(slug, locale, outcome))

GetWordPressPosts ==
    \E params \in PostsParams, outcome \in PostsOutcomes :
        Invoke("getWordPressPosts", [params |-> params], outcome,
               getWordPressPosts(params, outcome))

\* The query function of the product hooks runs; it reads no base URL.
FetchProducts ==
    \E params \in ProductSearchParams :
        LET r == fetchProducts(params)
        IN  /\ call' = [op |-> "fetchProducts", arg |-> [params |-> params],
                        outcome |-> [kind |-> "none"], threw |-> r.threw,
                        ret |-> r.ret, lines |-> r.lines, requests |-> r.requests,
                        caught |-> r.caught]
            /\ outbound' = outbound \o r.requests
            /\ log' = log \o r.lines
            /\ UNCHANGED <<cookie, now, routingVars, env, wordpress, tasks, footer, queryVars>>

NextRemote ==
    \/ LoadWordPress
    \/ GetWordPressMenu
    \/ GetWordPressPage
    \/ GetWordPressPosts
    \/ FetchProducts

SpecRemote == InitRemote /\ [][NextRemote]_vars

----------------------------------------------------------------------------
(* Claims about the remote data wrappers, checked under SpecRemote.        *)

WordPressOps == {"getWordPressMenu", "getWordPressPage", "getWordPressPosts"}

\* The upstream outcomes that are failures: a non-2xx status, a network
\* failure, a body that does not parse.
Failed(outcome) ==
    \/ outcome.kind = "network"
    \/ outcome.kind = "response" /\ (~Ok(outcome) \/ outcome.body.kind = "unparsable")

\* C15: no WordPress wrapper throws to its caller: for every failed upstream
\* outcome getWordPressMenu and getWordPressPage return null and
\* getWordPressPosts returns an empty list; on a 2xx response with an array
\* getWordPressPage returns its first element, or null when it is empty.
C15_NeverThrows ==
    call.op \in WordPressOps
    => /\ ~call.threw
       /\ (Failed(call.outcome) /\ call.op \in {"getWordPressMenu", "getWordPressPage"})
            => call.ret = Null
       /\ (Failed(call.outcome) /\ call.op = "getWordPressPosts") => call.ret = <<>>
       /\ (call.op = "getWordPressPage" /\ ~Failed(call.outcome))
            => LET pages == call.outcome.body.value
               IN  IF Len(pages) = 0 THEN call.ret = Null ELSE call.ret = pages[1]

C15_Witness ==
    /\ call.op = "getWordPressPage"
    /\ call.outcome.kind = "response"
    /\ call.outcome.status = 500
    /\ ~call.threw
    /\ call.ret = Null
    /\ Len(log) = 2

\* C16 (as claimed): in getWordPressMenu and getWordPressPage a 404 is "not
\* found": null is returned without the error path (nothing is raised, caught
\* or logged); any other non-success status goes through the error path.
C16_Original ==
    (/\ call.op \in {"getWordPressMenu", "getWordPressPage"}
     /\ call.requests # <<>>
     /\ call.outcome.kind = "response"
     /\ ~Ok(call.outcome))
    => /\ call.ret = Null
       /\ call.outcome.status = 404 => (~call.caught /\ call.lines = <<>>)
       /\ call.outcome.status # 404 => (call.caught /\ call.lines # <<>>)

C20_Original ==
    (\E v \in EnvVars : env[v].kind = "undefined")
    => /\ call = NoCall
       /\ outbound = <<>>
       /\ wordpress \in {"unloaded", "failed"}

----------------------------------------------------------------------------
(* The footer: src/components/layout/footer.tsx                            *)

\* menuGroups: the title (a translation of the Footer namespace) and the slug.
menuGroups ==
    <<[title |-> <<"Footer", "company">>, slug |-> "footer-company"],
      [title |-> <<"Footer", "support">>, slug |-> "footer-support"],
      [title |-> <<"Footer", "legal">>, slug |-> "footer-legal"]>>

\* The pieces of a base URL of the environment.
Pieces(str) ==
    CASE str = "https://psinfoodservice.online/wp-json" ->
            <<"https:", "/", "/", "psinfoodservice.online", "/", "wp-json">>
      [] str = "https://api.foodbook.psinfoodservice.com" ->
            <<"https:", "/", "/", "api.foodbook.psinfoodservice.com">>
      [] OTHER -> <<str>>

\* url.startsWith('/')
startsWithSlash(url) == Len(url) > 0 /\ url[1] = "/"

\* new URL(url) without a base: a scheme, '//' and a host parse, with the rest
\* as pathname ('/' when there is none); a string without a scheme throws.
newURL(url) ==
    IF /\ Len(url) >= 4
       /\ url[1] \in {"https:", "http:"}
       /\ url[2] = "/"
       /\ url[3] = "/"
       /\ url[4] # "/"
    THEN [ok |-> TRUE, hostname |-> url[4],
          pathname |-> IF Len(url) = 4 THEN <<"/">> ELSE SubSeq(url, 5, Len(url))]
    ELSE [ok |-> FALSE, hostname |-> "", pathname |-> <<>>]

isInternalUrl(url) ==
    IF startsWithSlash(url) THEN TRUE
    ELSE LET parsed == newURL(url)
             wpUrl == newURL(Pieces(WP_API_URL.value))
         IN  IF ~parsed.ok \/ ~wpUrl.ok THEN FALSE
             ELSE parsed.hostname = wpUrl.hostname

toRelativePath(url) ==
    IF startsWithSlash(url) THEN url
    ELSE IF newURL(url).ok THEN newURL(url).pathname
    ELSE url

\* The <a> rendered for a menu item: its href, target and rel.
MenuLink(item) ==
    LET isInternal == isInternalUrl(item.url)
        href == IF isInternal THEN toRelativePath(item.url) ELSE item.url
    IN  [href |-> IF isInternal THEN href ELSE item.url,
         target |-> IF item.target = "" THEN "_self" ELSE item.target,
         rel |-> IF item.target = "_blank" \/ ~isInternal
                 THEN Str("noopener noreferrer") ELSE Undefined]

\* As menuItems, but items is read off the result without the null checks.
menuItems_Required(menu) ==
    IF menu.kind = "null" THEN [threw |-> TRUE, items |-> <<>>]
    ELSE [threw |-> FALSE, items |-> menu.items]

\* (await getWordPressMenu(group.slug))?.items ?? []
menuItems(menu) ==
    IF menu.kind = "null" \/ "items" \notin DOMAIN menu
    THEN [threw |-> FALSE, items |-> <<>>]
    ELSE [threw |-> FALSE, items |-> menu.items]

\* As PromiseAll, but settled as soon as one of the promises is.
PromiseAll_Any(ts) ==
    \E i \in DOMAIN ts : ts[i].state # "pending"

\* Promise.all is settled: one promise is rejected, or all are fulfilled.
PromiseAll(ts) ==
    \/ \E i \in DOMAIN ts : ts[i].state = "rejected"
    \/ \A i \in DOMAIN ts : ts[i].state = "fulfilled"

\* Footer() maps the groups to promises: each callback runs up to its await of
\* fetch, so the three requests leave in the order of the groups. What the
\* upstream will answer to each is not known to the footer until it completes.
StartFooter ==
    /\ wordpress = "loaded"
    /\ tasks = <<>>
    /\ footer = NoFooter
    /\ \E outcomes \in [DOMAIN menuGroups -> UNION {MenuOutcomes(menuGroups[i].slug) :
                                                     i \in DOMAIN menuGroups}] :
         /\ \A i \in DOMAIN menuGroups : outcomes[i] \in MenuOutcomes(menuGroups[i].slug)
         /\ tasks' = [i \in DOMAIN menuGroups |->
                        [title |-> menuGroups[i].title, slug |-> menuGroups[i].slug,
                         outcome |-> outcomes[i], state |-> "pending",
                         items |-> <<>>, rank |-> 0]]
         /\ outbound' = outbound
                \o getWordPressMenu(menuGroups[1].slug, outcomes[1]).requests
                \o getWordPressMenu(menuGroups[2].slug, outcomes[2]).requests
                \o getWordPressMenu(menuGroups[3].slug, outcomes[3]).requests
    /\ UNCHANGED <<sessionVars, routingVars, env, wordpress, footer, queryVars>>

\* One of the pending fetches completes, whichever: its callback resumes.
Complete ==
    \E i \in DOMAIN tasks :
        /\ tasks[i].state = "pending"
        /\ LET r == getWordPressMenu(tasks[i].slug, tasks[i].outcome)
               m == IF r.threw THEN [threw |-> TRUE, items |-> <<>>] ELSE menuItems(r.ret)
               done == Cardinality({j \in DOMAIN tasks : tasks[j].state # "pending"})
           IN  /\ tasks' = [tasks EXCEPT
                              ![i].state = IF m.threw THEN "rejected" ELSE "fulfilled",
                              ![i].items = m.items,
                              ![i].rank = done + 1]
               /\ log' = log \o r.lines
        /\ UNCHANGED <<cookie, now, call, routingVars, env, wordpress, outbound, footer, queryVars>>

\* await Promise.all(...) resumes and the footer is rendered from menus, or
\* the rejection leaves Footer().
Settle ==
    /\ tasks # <<>>
    /\ footer = NoFooter
    /\ PromiseAll(tasks)
    /\ footer' = IF \E i \in DOMAIN tasks : tasks[i].state = "rejected"
                 THEN [kind |-> "thrown"]
                 ELSE [kind |-> "footer",
                       groups |-> [i \in DOMAIN tasks |->
                                     [title |-> tasks[i].title, slug |-> tasks[i].slug,
                                      items |-> tasks[i].items,
                                      links |-> [k \in DOMAIN tasks[i].items |->
                                                   MenuLink(tasks[i].items[k])]]]]
    /\ UNCHANGED <<sessionVars, routingVars, env, wordpress, outbound, tasks, queryVars>>

NextFooter == LoadWordPress \/ StartFooter \/ Complete \/ Settle

SpecFooter == InitRemote /\ [][NextFooter]_vars

----------------------------------------------------------------------------
(* Claims about the footer, checked under SpecFooter.                      *)

\* C18: in the footer render a menu slug whose fetch fails (a 404 or any other
\* failure) yields an empty items list for its group and no thrown error; each
\* group's items depend on the outcome of its own fetch only; and the footer
\* always renders all three groups.
C18_FailedToEmpty ==
    footer # NoFooter
    => /\ footer.kind = "footer"
       /\ Len(footer.groups) = 3
       /\ \A i \in 1..3 :
            LET outcome == tasks[i].outcome
            IN  /\ Failed(outcome) => footer.groups[i].items = <<>>
                /\ ~Failed(outcome) => footer.groups[i].items = outcome.body.value.items

C18_Witness ==
    /\ footer.kind = "footer"
    /\ tasks[1].outcome = Resp(404, Unparsable)
    /\ tasks[3].outcome = NetworkFailure
    /\ footer.groups[1].items = <<>>
    /\ Len(footer.groups[2].items) = 2
    /\ footer.groups[3].items = <<>>

\* C19: the three menu fetches are all started before any completes, they
\* complete in any order, and the footer is rendered only after all three have
\* completed (as failed-to-empty where they failed), with the groups in the
\* fixed order company, support, legal, each with the items of its own slug.
C19_AllThenInOrder ==
    /\ tasks # <<>> => Len(outbound) = 3
    /\ footer # NoFooter
       => /\ \A i \in DOMAIN tasks : tasks[i].state # "pending"
          /\ footer.kind = "footer"
          /\ [i \in DOMAIN footer.groups |-> footer.groups[i].slug] = FooterSlugs
          /\ \A i \in DOMAIN footer.groups :
               \A k \in DOMAIN footer.groups[i].items :
                   footer.groups[i].items[k].title[1] = FooterSlugs[i]

C19_Witness ==
    /\ footer.kind = "footer"
    /\ tasks[3].rank = 1
    /\ tasks[1].rank = 2
    /\ tasks[2].rank = 3
    /\ \A i \in 1..3 : Len(footer.groups[i].items) = 2

\* The host a browser on this site loads a link's URL from: the host of an
\* absolute or protocol-relative URL, this site for a path or a bare word.
ThisSite == "foodbook.psinfoodservice.com"

HostOf(url) ==
    IF Len(url) >= 3 /\ url[1] = "/" /\ url[2] = "/" THEN url[3]
    ELSE IF newURL(url).ok THEN newURL(url).hostname
    ELSE ThisSite

\* C29 (as claimed): a menu item is classified internal only if its URL is a
\* path of this site or points at the WordPress host; a link to another host
\* is rendered with its URL unchanged and rel="noopener noreferrer"; an
\* internal link is rendered as a relative path that begins with a single
\* '/'; and toRelativePath is idempotent.
C29_Original ==
    footer.kind = "footer"
    => \A i \in DOMAIN footer.groups :
         \A k \in DOMAIN footer.groups[i].items :
            LET url == footer.groups[i].items[k].url
                link == footer.groups[i].links[k]
                own == {ThisSite, newURL(Pieces(WP_API_URL.value)).hostname}
            IN  /\ isInternalUrl(url) => HostOf(url) \in own
                /\ HostOf(url) \notin own
                     => /\ link.href = url
                        /\ link.rel = Str("noopener noreferrer")
                /\ isInternalUrl(url)
                     => /\ startsWithSlash(link.href)
                        /\ Len(link.href) > 1 => link.href[2] # "/"
                /\ toRelativePath(toRelativePath(url)) = toRelativePath(url)

----------------------------------------------------------------------------
(* Claims about getSessionToken, checked under SpecSession.                *)

\* C28 (as claimed): getSessionToken() returns the cookie value unmodified and
\* without verification, it returns null exactly when the cookie is absent or
\* empty (where getSession() takes its missing-cookie path), and whenever
\* getSession() returns a session it returns the token of that session.
C28_Original ==
    call.op = "getSessionToken"
    => /\ ~call.threw
       /\ call.lines = <<>>
       /\ (call.ret = Null) <=> Falsy(cookie)
       /\ call.ret # Null => call.ret = cookie

\* C28 (amended): getSessionToken() performs no verification and logs nothing;
\* it returns null exactly when the cookie is absent and the cookie value
\* unmodified otherwise, so for an empty cookie, where getSession() takes its
\* missing-cookie path and returns null, it returns the empty string; whenever
\* getSession() returns a session, getSessionToken() returns the token that
\* session was built from.
C28_Amended ==
    call.op = "getSessionToken"
    => /\ ~call.threw
       /\ call.lines = <<>>
       /\ (call.ret = Null) <=> cookie.form = "absent"
       /\ cookie.form # "absent" => call.ret = cookie
       /\ cookie.form = "empty" =>
            \A t1 \in Instants, t2 \in Instants :
                getSession(cookie, t1, t2) = Returned(Null, <<>>)
       /\ \A t1 \in Instants, t2 \in Instants :
            LET s == getSession(cookie, t1, t2)
            IN  (~s.threw /\ s.ret # Null) => call.ret = cookie

C28_Witness ==
    /\ call.op = "getSessionToken"
    /\ cookie \in ForgedTokens
    /\ call.ret = cookie
    /\ \A t1 \in Instants, t2 \in Instants : getSession(cookie, t1, t2).ret = Null

----------------------------------------------------------------------------
(* The header navigation: header-navigation.tsx and mobile-menu.tsx        *)

\* usePathname() of next/navigation: the pathname of the URL in the browser,
\* which for a served page is the path that was requested.
usePathname(req) == Pathname(req.path)

\* link.matchPattern: /^\/$/ for home, /^\/product/ and the like for the others.
matchPattern(href) ==
    IF href = <<>> THEN [source |-> <<"/">>, toEnd |-> TRUE]
    ELSE [source |-> Join(href), toEnd |-> FALSE]

\* RegExp.prototype.test for a pattern anchored at the start (and at the end).
test(pattern, text) ==
    /\ MatchesAt(pattern.source, text)
    /\ pattern.toEnd => Len(text) = Len(pattern.source)

isActive(link, pathname) == test(matchPattern(link), pathname)

\* The links rendered with aria-current="page".
ActiveLinks(req) == {link \in navigationLinks : isActive(link, usePathname(req))}

\* The section a served page belongs to: the first segment of the internal
\* path the request was rewritten to (none for home).
SectionOf(res) ==
    LET internal == Tail(Target(res))
    IN  IF internal = <<>> THEN <<>> ELSE <<Head(internal)>>

\* C27 (as claimed): on every page served under the locale prefix at most one
\* navigation link has aria-current="page", and on a page of the sections
\* home, product, brand, blog, contact it is exactly the link of that section.
C27_Original ==
    (request.kind = "request" /\ response.kind = "rewrite")
    => /\ Cardinality(ActiveLinks(request)) <= 1
       /\ SectionOf(response) \in navigationLinks
            => ActiveLinks(request) = {SectionOf(response)}

----------------------------------------------------------------------------
(* Claims about the product search, checked under SpecRemote.              *)

\* Math.ceil(a / b) for a >= 0 and b >= 1.
Ceil(a, b) == (a + b - 1) \div b

\* C24: the response of a product search echoes the page and pageSize it was
\* given and carries the defaults 0 and 21 for the one omitted; for page 0 and
\* pageSize 21 without filters its totalPages is ceil(total / pageSize).
C24_EchoAndDefaults ==
    call.op = "fetchProducts"
    => LET params == call.arg.params
           res == call.ret
       IN  /\ ~call.threw
           /\ "page" \in DOMAIN params => res.page = params.page
           /\ "page" \notin DOMAIN params => res.page = 0
           /\ "pageSize" \in DOMAIN params => res.pageSize = params.pageSize
           /\ "pageSize" \notin DOMAIN params => res.pageSize = 21
           /\ (res.page = 0 /\ res.pageSize = 21)
                => res.totalPages = Ceil(res.total, res.pageSize)

C24_Witness ==
    /\ call.op = "fetchProducts"
    /\ call.arg.params = [kind |-> "params", page |-> 0, pageSize |-> 21]
    /\ call.ret.page = 0
    /\ call.ret.pageSize = 21
    /\ call.ret.total = 2
    /\ call.ret.totalPages = 1

\* C30 (as claimed): for every search with pageSize >= 1 the response has
\* totalPages = ceil(total / pageSize), page < totalPages whenever total > 0,
\* and at most pageSize products.
C30_Original ==
    (call.op = "fetchProducts" /\ call.ret.pageSize >= 1)
    => LET res == call.ret
       IN  /\ res.totalPages = Ceil(res.total, res.pageSize)
           /\ res.total > 0 => res.page < res.totalPages
           /\ Len(res.products) <= res.pageSize

----------------------------------------------------------------------------
(* The query-key factories: productKeys ... authKeys                       *)

\* A key is an array of strings, numbers and plain objects. A number is kept
\* apart from the string of its digits, as in JavaScript.
Num(n) == [kind |-> "number", num |-> n]

\* A plain object: the set of its own properties as <<name, value>>.
Obj(entries) == [kind |-> "object", entries |-> entries]

\* The params objects given to the list operations.
KeyParams ==
    {Obj({}), Obj({<<"keyword", Str("tomato")>>}), Obj({<<"keyword", Str("basil")>>}),
     Obj({<<"keyword", Str("tomato")>>, <<"page", Num(1)>>})}

\* The ids given to detail and products: number | string.
KeyIds == {Num(123), Num(456), Str("123"), Str("list")}

\* The slugs and keywords.
KeyStrings == {Str("about"), Str("main"), Str("")}

RECURSIVE productKeys(_, _)
productKeys(op, arg) ==
    CASE op = "all" -> <<Str("products")>>
      [] op = "lists" -> productKeys("all", Undefined) \o <<Str("list")>>
      [] op = "list" -> productKeys("lists", Undefined) \o <<arg>>
      [] op = "details" -> productKeys("all", Undefined) \o <<Str("detail")>>
      [] op = "detail" -> productKeys("details", Undefined) \o <<arg>>
      [] op = "autocomplete" ->
            productKeys("all", Undefined) \o <<Str("autocomplete"), arg>>

RECURSIVE brandKeys(_, _)
brandKeys(op, arg) ==
    CASE op = "all" -> <<Str("brands")>>
      [] op = "lists" -> brandKeys("all", Undefined) \o <<Str("list")>>
      [] op = "list" -> brandKeys("lists", Undefined) \o <<arg>>
      [] op = "details" -> brandKeys("all", Undefined) \o <<Str("detail")>>
      [] op = "detail" -> brandKeys("details", Undefined) \o <<arg>>
      [] op = "products" -> brandKeys("detail", arg) \o <<Str("products")>>

RECURSIVE blogKeys(_, _)
blogKeys(op, arg) ==
    CASE op = "all" -> <<Str("blog")>>
      [] op = "lists" -> blogKeys("all", Undefined) \o <<Str("list")>>
      [] op = "list" -> blogKeys("lists", Undefined) \o <<arg>>
      [] op = "details" -> blogKeys("all", Undefined) \o <<Str("detail")>>
      [] op = "detail" -> blogKeys("details", Undefined) \o <<arg>>
      [] op = "categories" -> blogKeys("all", Undefined) \o <<Str("categories")>>
      [] op = "tags" -> blogKeys("all", Undefined) \o <<Str("tags")>>

\* As wordpressKeys, but page(slug) leaves the slug out of the key.
RECURSIVE wordpressKeys_Unkeyed(_, _)
wordpressKeys_Unkeyed(op, arg) ==
    CASE op = "all" -> <<Str("wordpress")>>
      [] op = "pages" -> wordpressKeys_Unkeyed("all", Undefined) \o <<Str("pages")>>
      [] op = "page" -> wordpressKeys_Unkeyed("pages", Undefined)
      [] op = "menus" -> wordpressKeys_Unkeyed("all", Undefined) \o <<Str("menus")>>
      [] op = "menu" -> wordpressKeys_Unkeyed("menus", Undefined) \o <<arg>>

RECURSIVE wordpressKeys(_, _)
wordpressKeys(op, arg) ==
    CASE op = "all" -> <<Str("wordpress")>>
      [] op = "pages" -> wordpressKeys("all", Undefined) \o <<Str("pages")>>
      [] op = "page" -> wordpressKeys("pages", Undefined) \o <<arg>>
      [] op = "menus" -> wordpressKeys("all", Undefined) \o <<Str("menus")>>
      [] op = "menu" -> wordpressKeys("menus", Undefined) \o <<arg>>

RECURSIVE filterKeys(_, _)
filterKeys(op, arg) ==
    CASE op = "all" -> <<Str("filters")>>
      [] op = "list" -> filterKeys("all", Undefined) \o <<Str("list")>>

RECURSIVE authKeys(_, _)
authKeys(op, arg) ==
    CASE op = "all" -> <<Str("auth")>>
      [] op = "session" -> authKeys("all", Undefined) \o <<Str("session")>>
      [] op = "user" -> authKeys("all", Undefined) \o <<Str("user")>>

Factories ==
    {"productKeys", "brandKeys", "blogKeys", "wordpressKeys", "filterKeys", "authKeys"}

KeyOf(factory, op, arg) ==
    CASE factory = "productKeys" -> productKeys(op, arg)
      [] factory = "brandKeys" -> brandKeys(op, arg)
      [] factory = "blogKeys" -> blogKeys(op, arg)
      [] factory = "wordpressKeys" -> wordpressKeys(op, arg)
      [] factory = "filterKeys" -> filterKeys(op, arg)
      [] factory = "authKeys" -> authKeys(op, arg)

\* The arguments an operation of a factory is invoked with.
KeyArgs(factory, op) ==
    CASE op = "list" /\ factory # "filterKeys" -> KeyParams
      [] op \in {"detail", "products"} /\ factory # "blogKeys" -> KeyIds
      [] op \in {"detail", "autocomplete", "page", "menu"} -> KeyStrings
      [] OTHER -> {Undefined}

KeyOps(factory) ==
    CASE factory = "productKeys" ->
            {"all", "lists", "list", "details", "detail", "autocomplete"}
      [] factory = "brandKeys" -> {"all", "lists", "list", "details", "detail", "products"}
      [] factory = "blogKeys" ->
            {"all", "lists", "list", "details", "detail", "categories", "tags"}
      [] factory = "wordpressKeys" -> {"all", "pages", "page", "menus", "menu"}
      [] factory = "filterKeys" -> {"all", "list"}
      [] factory = "authKeys" -> {"all", "session", "user"}

InitKeys ==
    /\ cookie = NoCookie
    /\ now = 0
    /\ log = <<>>
    /\ call = NoCall
    /\ request = NoRequest
    /\ response = NoResponse
    /\ config = NoConfig
    /\ RemoteIdle
    /\ QueryIdle

\* A caller builds a key: the invocation before it is kept beside it.
MakeKey ==
    /\ \E factory \in Factories : \E op \in KeyOps(factory) :
         \E arg \in KeyArgs(factory, op) :
            keys' = [prev |-> keys.last,
                     last |-> [kind |-> "key", factory |-> factory, op |-> op,
                               arg |-> arg, key |-> KeyOf(factory, op, arg)]]
    /\ UNCHANGED <<sessionVars, routingVars, remoteVars, clients, query>>

NextKeys == MakeKey

SpecKeys == InitKeys /\ [][NextKeys]_vars

----------------------------------------------------------------------------
(* Claims about the query keys, checked under SpecKeys.                    *)

IsPrefix(prefix, key) ==
    Len(prefix) <= Len(key) /\ SubSeq(key, 1, Len(prefix)) = prefix

\* C21: two invocations of a key factory with equal parameters give equal
\* keys and with differing parameters unequal keys; a key starts with the
\* 'all' key of its entity and of no other entity; and the keys of different
\* operations of one entity are never equal.
C21_KeysDistinct ==
    (keys.prev # NoKey /\ keys.last # NoKey)
    => LET a == keys.prev
           b == keys.last
       IN  /\ (a.factory = b.factory /\ a.op = b.op)
                => ((a.arg = b.arg) <=> (a.key = b.key))
           /\ \A f \in Factories :
                IsPrefix(KeyOf(f, "all", Undefined), b.key) <=> f = b.factory
           /\ (a.factory = b.factory /\ a.op # b.op) => a.key # b.key

C21_Witness ==
    /\ keys.prev # NoKey
    /\ keys.prev.factory = "wordpressKeys"
    /\ keys.prev.op = "page"
    /\ keys.prev.arg = Str("about")
    /\ keys.last.factory = "wordpressKeys"
    /\ keys.last.op = "page"
    /\ keys.last.arg = Str("main")
    /\ keys.last.key = <<Str("wordpress"), Str("pages"), Str("main")>>
    /\ keys.prev.key # keys.last.key

----------------------------------------------------------------------------
(* The query client: makeQueryClient, getQueryClient, and the hooks        *)

Bool(b) == [kind |-> "boolean", bool |-> b]

\* What a query function rejects with. cause is the HTTP status the upstream
\* answered with (0: the network failed); the value thrown is an Error or not,
\* and has a status property or not.
Errors ==
    {[kind |-> "error", instanceOfError |-> TRUE, hasStatus |-> TRUE, status |-> st,
      cause |-> st] : st \in {400, 404, 499, 500}}
    \cup {[kind |-> "error", instanceOfError |-> TRUE, hasStatus |-> FALSE,
           status |-> 0, cause |-> c] : c \in {0, 404, 500}}
    \cup {[kind |-> "error", instanceOfError |-> FALSE, hasStatus |-> TRUE,
           status |-> 404, cause |-> 404]}

Min(a, b) == IF a <= b THEN a ELSE b

\* queries.retry
retry(failureCount, error) ==
    IF failureCount >= 2 THEN FALSE
    ELSE IF /\ error.instanceOfError
            /\ error.hasStatus
            /\ error.status >= 400
            /\ error.status < 500
    THEN FALSE
    ELSE TRUE

\* As retryDelay, but the same delay for every attempt.
retryDelay_Constant(attemptIndex) == 1000

\* queries.retryDelay
retryDelay(attemptIndex) == Min(1000 * 2 ^ attemptIndex, 30000)

\* The retry option in force: the function for queries, false for mutations.
shouldRetry(kind, failureCount, error) ==
    IF kind = "mutation" THEN FALSE ELSE retry(failureCount, error)

makeQueryClient(c) == [kind |-> "client", id |-> c.created + 1]

\* As getQueryClient, but a client is made on every call in the browser too.
getQueryClient_Fresh(c) ==
    [ret |-> makeQueryClient(c),
     clients |-> [c EXCEPT !.created = c.created + 1,
                           !.browserQueryClient = makeQueryClient(c)]]

\* getQueryClient(): what it returns and what it leaves in the module.
getQueryClient(c) ==
    IF c.isServer
    THEN [ret |-> makeQueryClient(c), clients |-> [c EXCEPT !.created = c.created + 1]]
    ELSE IF c.browserQueryClient.kind = "undefined"
    THEN [ret |-> makeQueryClient(c),
          clients |-> [c EXCEPT !.created = c.created + 1,
                                !.browserQueryClient = makeQueryClient(c)]]
    ELSE [ret |-> c.browserQueryClient, clients |-> c]

\* The keywords typed into the search box, as their characters.
Keywords == {<<>>, <<"a">>, <<"a", "b">>, <<"t", "o", "m">>}

\* The options argument of the hooks: left out, or an object with some fields.
HookOptions ==
    {Undefined, [kind |-> "options"], [kind |-> "options", enabled |-> Bool(TRUE)],
     [kind |-> "options", enabled |-> Bool(FALSE)],
     [kind |-> "options", enabled |-> Undefined],
     [kind |-> "options", staleTime |-> Num(0)]}

\* options?.enabled ?? true
enabledOr(options) ==
    IF options.kind = "undefined" \/ "enabled" \notin DOMAIN options THEN TRUE
    ELSE IF options.enabled.kind = "undefined" THEN TRUE
    ELSE options.enabled.bool

\* { ...base, ...options }: the own properties of options replace those of base.
Spread(base, options) ==
    IF options.kind = "undefined" THEN base
    ELSE [k \in DOMAIN base \cup (DOMAIN options \ {"kind"}) |->
            IF k \in DOMAIN options \ {"kind"} THEN options[k] ELSE base[k]]

\* The options object useProductAutocomplete gives to useQuery.
useProductAutocomplete(keyword, options) ==
    Spread([queryKey |-> productKeys("autocomplete", Str(keyword)),
            enabled |-> Bool(Len(keyword) >= 2 /\ enabledOr(options)),
            staleTime |-> Num(30 * 1000)],
           options)

\* useQuery fetches on mount unless enabled is false.
Enabled(options) ==
    ~("enabled" \in DOMAIN options
      /\ options.enabled.kind = "boolean"
      /\ ~options.enabled.bool)

InitQuery ==
    /\ cookie = NoCookie
    /\ now = 0
    /\ log = <<>>
    /\ call = NoCall
    /\ request = NoRequest
    /\ response = NoResponse
    /\ config = NoConfig
    /\ RemoteIdle
    /\ keys = [prev |-> NoKey, last |-> NoKey]
    /\ \E isServer \in BOOLEAN :
         clients = [isServer |-> isServer, browserQueryClient |-> Undefined,
                    created |-> 0, returned |-> <<>>]
    /\ query = NoQuery

\* QueryProvider renders, or another caller asks for the client.
GetQueryClient ==
    /\ Len(clients.returned) < MaxCalls
    /\ LET r == getQueryClient(clients)
       IN  clients' = [r.clients EXCEPT !.returned = Append(clients.returned, r.ret)]
    /\ UNCHANGED <<sessionVars, routingVars, remoteVars, keys, query>>

\* The query or mutation as it starts: its function runs for the first time
\* if it is enabled.
Started(kind, hook, arg, enabled) ==
    [kind |-> kind, hook |-> hook, arg |-> arg, enabled |-> enabled,
     status |-> IF enabled THEN "fetching" ELSE "idle",
     attempts |-> IF enabled THEN 1 ELSE 0,
     failureCount |-> 0, delay |-> 0, waited |-> <<>>, errors |-> <<>>]

\* A component under the provider mounts a query with the default options.
UseQuery ==
    /\ clients.returned # <<>>
    /\ query = NoQuery
    /\ query' = Started("query", "useQuery", Undefined, TRUE)
    /\ UNCHANGED <<sessionVars, routingVars, remoteVars, keys, clients>>

\* A component runs a mutation with the default options.
UseMutation ==
    /\ clients.returned # <<>>
    /\ query = NoQuery
    /\ query' = Started("mutation", "useMutation", Undefined, TRUE)
    /\ UNCHANGED <<sessionVars, routingVars, remoteVars, keys, clients>>

\* A component mounts useProductAutocomplete(keyword, options).
UseProductAutocomplete ==
    /\ clients.returned # <<>>
    /\ query = NoQuery
    /\ \E keyword \in Keywords, options \in HookOptions :
         LET given == useProductAutocomplete(keyword, options)
         IN  query' = Started("query", "useProductAutocomplete",
                              [keyword |-> keyword, options |-> options,
                               given |-> given],
                              Enabled(given))
    /\ UNCHANGED <<sessionVars, routingVars, remoteVars, keys, clients>>

\* The query function resolves.
Resolve ==
    /\ query # NoQuery
    /\ query.status = "fetching"
    /\ query' = [query EXCEPT !.status = "success"]
    /\ UNCHANGED <<sessionVars, routingVars, remoteVars, keys, clients>>

\* The query function rejects: the retryer asks retryDelay and retry with the
\* failure count so far, and gives up or counts the failure and sleeps. The
\* function of useProductAutocomplete has no failing path.
Reject ==
    /\ query # NoQuery
    /\ query.status = "fetching"
    /\ query.hook # "useProductAutocomplete"
    /\ \E error \in Errors :
         LET delay == retryDelay(query.failureCount)
         IN  query' = IF shouldRetry(query.kind, query.failureCount, error)
                      THEN [query EXCEPT !.status = "waiting",
                                         !.failureCount = query.failureCount + 1,
                                         !.delay = delay,
                                         !.errors = Append(query.errors, error)]
                      ELSE [query EXCEPT !.status = "error",
                                         !.errors = Append(query.errors, error)]
    /\ UNCHANGED <<sessionVars, routingVars, remoteVars, keys, clients>>

\* The sleep is over: the query function runs again.
Retry ==
    /\ query # NoQuery
    /\ query.status = "waiting"
    /\ query.attempts < MaxAttempts
    /\ query' = [query EXCEPT !.status = "fetching",
                              !.attempts = query.attempts + 1,
                              !.waited = Append(query.waited, query.delay)]
    /\ UNCHANGED <<sessionVars, routingVars, remoteVars, keys, clients>>

NextQuery ==
    \/ GetQueryClient
    \/ UseQuery
    \/ UseMutation
    \/ UseProductAutocomplete
    \/ Resolve
    \/ Reject
    \/ Retry

SpecQuery == InitQuery /\ [][NextQuery]_vars

----------------------------------------------------------------------------
(* Claims about the query client, checked under SpecQuery.                 *)

\* The upstream answered a failed attempt with a client error.
ClientError(error) == error.cause >= 400 /\ error.cause <= 499

\* C22 (as claimed): a query that fails with a status 400..499 is not retried
\* after that failure (it is attempted once if it fails so at once); a query that keeps failing with network or 5xx
\* errors is retried at most 2 times (3 attempts) and then settles in the
\* error state; a mutation is never retried.
C22_Original ==
    query # NoQuery
    => /\ \A i \in DOMAIN query.errors :
            ClientError(query.errors[i])
            => (i = Len(query.errors) /\ query.status = "error"
                /\ (i = 1 => query.attempts = 1))
       /\ query.attempts <= 3
       /\ Len(query.waited) <= 2
       /\ (query.kind = "query" /\ query.status = "error"
           /\ \A i \in DOMAIN query.errors : ~ClientError(query.errors[i]))
            => query.attempts = 3
       /\ query.kind = "mutation" => (query.attempts <= 1 /\ query.waited = <<>>)

\* C23: in the browser every getQueryClient() call returns the same instance
\* and at most one instance is ever made; on the server every call returns an
\* instance made by that call, which no earlier call returned.
C23_Singleton ==
    LET returned == clients.returned
    IN  /\ ~clients.isServer
            => /\ clients.created <= 1
               /\ \A i \in DOMAIN returned : returned[i] = returned[1]
               /\ returned # <<>> => clients.browserQueryClient = returned[1]
        /\ clients.isServer
            => /\ clients.created = Len(returned)
               /\ \A i \in DOMAIN returned : \A j \in DOMAIN returned :
                    i # j => returned[i] # returned[j]

C23_Witness ==
    /\ ~clients.isServer
    /\ Len(clients.returned) >= 3
    /\ clients.returned[3] = clients.returned[1]
    /\ clients.created = 1

C26_Original ==
    (query # NoQuery /\ query.hook = "useProductAutocomplete")
    => /\ Len(query.arg.keyword) < 2
            => (~query.enabled /\ query.attempts = 0 /\ query.status = "idle")
       /\ query.enabled
            => (Len(query.arg.keyword) >= 2 /\ enabledOr(query.arg.options))

====
